---- MODULE Spec2Model ----
(***************************************************************************)
(* KeyAuth Discord admin bot: the interactionCreate handler of             *)
(* src/src/index.ts and the KeyAuthClient of src/src/keyauth.ts.           *)
(*                                                                         *)
(* The JavaScript runtime is single threaded: a handler invocation runs    *)
(* without interruption up to its next `await`, so every action below is   *)
(* one such run-to-completion segment of one invocation.  Invocations      *)
(* interleave only at their awaits.  The environment (upstream HTTP        *)
(* answers, Discord accepting or rejecting a reply) is nondeterministic.   *)
(***************************************************************************)
EXTENDS Naturals, Sequences, FiniteSets

VARIABLES
    sessionId,   \* KeyAuthClient.sessionId (keyauth.ts:20)
    tasks,       \* the pending handler invocations, one record per slot
    initCount,   \* history: init requests sent to the upstream endpoint
    uuidCount,   \* history: crypto.randomUUID() calls made so far
    writes       \* history: the ids assigned to this.sessionId, in order

vars == <<sessionId, tasks, initCount, uuidCount, writes>>

----------------------------------------------------------------------------
(* Bounds *)

NumTasks == 2      \* handler invocations that may be pending at once
NumSrvIds == 2     \* distinct session ids the upstream may hand out
MaxStrLen == 2     \* longest string argument drawn

Tasks == 1..NumTasks

----------------------------------------------------------------------------
(* Strings are sequences of characters, so that trim() is computed. *)

WhiteSpace == {" "}
Chars == WhiteSpace \cup {"a"}

RECURSIVE StrOfLen(_)
StrOfLen(n) ==
    IF n = 0 THEN {<<>>}
    ELSE {Append(s, c) : s \in StrOfLen(n - 1), c \in Chars}

StrVals == UNION {StrOfLen(n) : n \in 0..MaxStrLen}

RECURSIVE TrimStart(_)
TrimStart(s) ==
    IF s # <<>> /\ Head(s) \in WhiteSpace THEN TrimStart(Tail(s)) ELSE s

RECURSIVE TrimEnd(_)
TrimEnd(s) ==
    IF s # <<>> /\ s[Len(s)] \in WhiteSpace
    THEN TrimEnd(SubSeq(s, 1, Len(s) - 1))
    ELSE s

\* String.prototype.trim
Trim(s) == TrimEnd(TrimStart(s))

\* JavaScript truthiness of a string: `!username` is true of ''.
Truthy(s) == s # <<>>

----------------------------------------------------------------------------
(* index.ts: admin list and command catalogue *)

adminIds == {"admin1"}
Users == {"admin1", "user2"}

\* A handler without the admin check, for comparison.
isAdmin_open(userId) == TRUE

isAdmin(userId) == userId \in adminIds

\* The switch with the `stats` case missing, for comparison.
HandledCommands_nostats ==
    {"user", "ban", "unban", "deleteuser", "resethwid",
     "createlicense", "deletelicense", "uselicense", "extendsub"}

\* The ten `case` labels of the switch.
HandledCommands ==
    {"user", "ban", "unban", "deleteuser", "resethwid",
     "createlicense", "deletelicense", "uselicense", "extendsub", "stats"}

\* The ten registered command names (lines 29-141) and one that reaches
\* the handler without a case of its own (a stale registration).
Registered ==
    {"user", "ban", "unban", "deleteuser", "resethwid",
     "createlicense", "deletelicense", "uselicense", "extendsub", "stats"}
CommandNames == Registered \cup {"legacy"}

\* The string options each registered command declares, in order.
StringOptions(cmd) ==
    CASE cmd \in {"user", "ban", "unban", "deleteuser", "resethwid"} -> <<"username">>
      [] cmd \in {"createlicense", "deletelicense"} -> <<"license">>
      [] cmd = "uselicense" -> <<"license", "username">>
      [] cmd = "extendsub" -> <<"username", "subscription">>
      [] OTHER -> <<>>

\* The argument bags the platform can deliver for a command: one string per
\* declared string option.  (Integer options are schema-checked by the
\* platform and never read by any branch condition; they are not drawn.)
ArgBags(cmd) ==
    {s \in UNION {[1..n -> StrVals] : n \in 0..2} : Len(s) = Len(StringOptions(cmd))}

\* The handler's own argument check, per case: TRUE when it replies with a
\* validation error and returns.
Rejects(cmd, args) ==
    CASE cmd \in {"user", "ban", "unban", "deleteuser", "resethwid"} ->
            ~Truthy(Trim(args[1]))
      [] cmd \in {"uselicense", "extendsub"} ->
            ~Truthy(Trim(args[1])) \/ ~Truthy(Trim(args[2]))
      [] OTHER -> FALSE

----------------------------------------------------------------------------
(* Notifications (calls of interaction.reply) *)

Note(k, t) == [kind |-> k, text |-> t]

AccessDenied == Note("AccessDenied", "fixed")
ValidationError == Note("ValidationError", "fixed")
UnknownCommand == Note("UnknownCommand", "fixed")
CaughtError == Note("CaughtError", "exception")

\* Upstream results: {success, message?, info?}.  info is its truthiness,
\* message is absent, the empty string, or a non-empty text.
NoResult == [success |-> FALSE, info |-> FALSE, message |-> "none"]
Results == [success : BOOLEAN, info : BOOLEAN, message : {"absent", "empty", "text"}]

\* `result.message || generic`
TextOf(result) == IF result.message = "text" THEN "message" ELSE "generic"

Translate(cmd, result) ==
    IF cmd \in {"user", "stats"}
    THEN IF result.success /\ result.info
         THEN Note("Positive", "fields")
         ELSE Note("Negative", TextOf(result))
    ELSE Note(IF result.success THEN "Positive" ELSE "Negative", TextOf(result))

----------------------------------------------------------------------------
(* keyauth.ts: session ids *)

Null == [src |-> "none", n |-> 0]
ServerId(k) == [src |-> "server", n |-> k]
LocalId(k) == [src |-> "local", n |-> k]
ServerIds == {ServerId(k) : k \in 1..NumSrvIds}

\* Bodies the init endpoint may answer with: success flag and sessionid,
\* Null standing for a missing or empty sessionid.
InitBodies == [success : BOOLEAN, sessionid : ServerIds \cup {Null}]

\* A client that never finds its cache set, for comparison.
HasSession_never(s) == FALSE

\* getSessionId, line 36: the cached id is returned without a request.

HasSession(s) == s # Null

\* getSessionId, line 59
InitAccepted(data) == data.success /\ data.sessionid # Null

\* Two other caches, for comparison: one that keeps the first id it was
\* given, one that forgets what it is given.
CacheWrite_keepFirst(old, new) == IF old = Null THEN new ELSE old

CacheWrite_dropped(old, new) == old

\* The assignment to this.sessionId (lines 60 and 71).

CacheWrite(old, new) == new

----------------------------------------------------------------------------
(* Invocation records *)

Idle ==
    [pc |-> "idle", caller |-> "none", cmd |-> "none", blank |-> FALSE,
     obs |-> "none", seen |-> Null, sid |-> Null, reqSid |-> Null,
     ninit |-> 0, nreq |-> 0, nwrite |-> 0, fellBack |-> FALSE,
     result |-> NoResult, replies |-> <<>>, raised |-> FALSE, escaped |-> FALSE]

\* History: some string argument of the bag is empty or all whitespace.
IsBlank(s) == \A i \in 1..Len(s) : s[i] \in WhiteSpace
AnyBlank(args) == \E i \in 1..Len(args) : IsBlank(args[i])

Set(t, r) == tasks' = [tasks EXCEPT ![t] = r]

Init ==
    /\ sessionId = Null
    /\ tasks = [t \in Tasks |-> Idle]
    /\ initCount = 0
    /\ uuidCount = 0
    /\ writes = <<>>

----------------------------------------------------------------------------
(* The interactionCreate handler, from its entry to its first await.       *)
(* A new invocation takes the lowest free slot.                            *)

Free(t) ==
    /\ tasks[t].pc = "idle"
    /\ \A u \in Tasks : u < t => tasks[u].pc # "idle"

\* An invocation past the admin check: commandName is read (line 192).
\* blank is history: what the argument bag was like.
Entered(caller, cmd, args) ==
    [Idle EXCEPT !.caller = caller, !.cmd = cmd, !.blank = AnyBlank(args)]

\* Lines 184-190: the caller is not an admin.
StartDenied(t) ==
    /\ Free(t)
    /\ \E caller \in Users, cmd \in CommandNames : \E args \in ArgBags(cmd) :
        /\ ~isAdmin(caller)
        /\ Set(t, [Idle EXCEPT !.caller = caller, !.seen = sessionId,
                     !.pc = "awaitDenyReply", !.replies = <<AccessDenied>>])
    /\ UNCHANGED <<sessionId, initCount, uuidCount, writes>>

\* Lines 413-417: the default branch of the switch.
StartUnknown(t) ==
    /\ Free(t)
    /\ \E caller \in Users, cmd \in CommandNames : \E args \in ArgBags(cmd) :
        /\ isAdmin(caller)
        /\ cmd \notin HandledCommands
        /\ Set(t, [Entered(caller, cmd, args) EXCEPT
                     !.pc = "awaitReply", !.replies = <<UnknownCommand>>])
    /\ UNCHANGED <<sessionId, initCount, uuidCount, writes>>

\* The `if (!username)` style checks of the cases that have one.
StartInvalid(t) ==
    /\ Free(t)
    /\ \E caller \in Users, cmd \in CommandNames : \E args \in ArgBags(cmd) :
        /\ isAdmin(caller)
        /\ cmd \in HandledCommands
        /\ Rejects(cmd, args)
        /\ Set(t, [Entered(caller, cmd, args) EXCEPT
                     !.pc = "awaitReply", !.replies = <<ValidationError>>])
    /\ UNCHANGED <<sessionId, initCount, uuidCount, writes>>

\* makeRequest calls getSessionId, which finds a cached id and returns it
\* (keyauth.ts:36-38); makeRequest awaits it.  seen is history: the cache
\* as it was when the call began.
CallCached(r) ==
    [r EXCEPT !.pc = "awaitSession", !.obs = "cached", !.seen = sessionId,
              !.sid = sessionId]

\* getSessionId finds no cached id and sends the init request
\* (keyauth.ts:40-55), awaiting the fetch.
CallInit(r) ==
    [r EXCEPT !.pc = "awaitInitFetch", !.obs = "null", !.seen = sessionId,
              !.ninit = @ + 1]

\* The case's client method is called with a cached session.
StartCached(t) ==
    /\ Free(t)
    /\ \E caller \in Users, cmd \in CommandNames : \E args \in ArgBags(cmd) :
        /\ isAdmin(caller)
        /\ cmd \in HandledCommands
        /\ ~Rejects(cmd, args)
        /\ HasSession(sessionId)
        /\ Set(t, CallCached(Entered(caller, cmd, args)))
    /\ UNCHANGED <<sessionId, initCount, uuidCount, writes>>

\* The case's client method is called with no session cached.
StartInit(t) ==
    /\ Free(t)
    /\ \E caller \in Users, cmd \in CommandNames : \E args \in ArgBags(cmd) :
        /\ isAdmin(caller)
        /\ cmd \in HandledCommands
        /\ ~Rejects(cmd, args)
        /\ ~HasSession(sessionId)
        /\ Set(t, CallInit(Entered(caller, cmd, args)))
    /\ initCount' = initCount + 1
    /\ UNCHANGED <<sessionId, uuidCount, writes>>

Start(t) ==
    \/ StartDenied(t)
    \/ StartUnknown(t)
    \/ StartInvalid(t)
    \/ StartCached(t)
    \/ StartInit(t)

----------------------------------------------------------------------------
(* KeyAuthClient.getSessionId after its awaits *)

\* The init fetch resolves with an ok status: await response.json().
InitFetchOk(t) ==
    /\ tasks[t].pc = "awaitInitFetch"
    /\ Set(t, [tasks[t] EXCEPT !.pc = "awaitInitJson"])
    /\ UNCHANGED <<sessionId, initCount, uuidCount, writes>>

\* The init fetch rejects (caught at line 64) or resolves with a non-ok
\* status: control reaches `await import('crypto')`.
InitFetchFail(t) ==
    /\ tasks[t].pc = "awaitInitFetch"
    /\ \E how \in {"network", "status"} :
        Set(t, [tasks[t] EXCEPT !.pc = "awaitCrypto"])
    /\ UNCHANGED <<sessionId, initCount, uuidCount, writes>>

\* Lines 58-62: the body is accepted, cached and returned.
InitJsonAccepted(t) ==
    /\ tasks[t].pc = "awaitInitJson"
    /\ \E data \in InitBodies :
        /\ InitAccepted(data)
        /\ sessionId' = CacheWrite(sessionId, data.sessionid)
        /\ writes' = Append(writes, data.sessionid)
        /\ Set(t, [tasks[t] EXCEPT !.pc = "awaitSession", !.sid = sessionId',
                                   !.nwrite = @ + 1])
    /\ UNCHANGED <<initCount, uuidCount>>

\* The body does not parse (caught at line 64), or is not accepted.
InitJsonRejected(t) ==
    /\ tasks[t].pc = "awaitInitJson"
    /\ \E why \in {"unparsable", "refused"} :
        why = "refused" => \E data \in InitBodies : ~InitAccepted(data)
    /\ Set(t, [tasks[t] EXCEPT !.pc = "awaitCrypto"])
    /\ UNCHANGED <<sessionId, initCount, uuidCount, writes>>

\* Lines 69-72: the fallback id is generated, cached and returned.
Fallback(t) ==
    /\ tasks[t].pc = "awaitCrypto"
    /\ LET local == LocalId(uuidCount + 1) IN
        /\ uuidCount' = uuidCount + 1
        /\ sessionId' = CacheWrite(sessionId, local)
        /\ writes' = Append(writes, local)
        /\ Set(t, [tasks[t] EXCEPT !.pc = "awaitSession",
                                   !.sid = local,
                                   !.nwrite = @ + 1, !.fellBack = TRUE])
    /\ UNCHANGED initCount

----------------------------------------------------------------------------
(* KeyAuthClient.makeRequest after `await this.getSessionId()` *)

\* Lines 78-94: the operation request is built with the resolved id and sent.
SendRequest(t) ==
    /\ tasks[t].pc = "awaitSession"
    /\ Set(t, [tasks[t] EXCEPT !.pc = "awaitOpFetch", !.nreq = @ + 1,
                               !.reqSid = tasks[t].sid, !.sid = Null])
    /\ UNCHANGED <<sessionId, initCount, uuidCount, writes>>

\* makeRequest returns or throws: what it held (the id it resolved, how it
\* got it, the request in flight) is gone.
Returned(r) ==
    [r EXCEPT !.obs = "none", !.seen = Null, !.sid = Null, !.reqSid = Null,
              !.ninit = 0, !.nwrite = 0, !.fellBack = FALSE]

\* The handler's catch block (index.ts:419-425) calls reply.
Caught(r) ==
    [r EXCEPT !.pc = "awaitCatchReply", !.replies = Append(@, CaughtError),
              !.result = NoResult]

OpFetchOk(t) ==
    /\ tasks[t].pc = "awaitOpFetch"
    /\ Set(t, [tasks[t] EXCEPT !.pc = "awaitOpJson"])
    /\ UNCHANGED <<sessionId, initCount, uuidCount, writes>>

\* The fetch rejects, or the status is not ok (line 97): makeRequest throws
\* the wrapped error (line 103), which the handler catches.
OpFetchFail(t) ==
    /\ tasks[t].pc = "awaitOpFetch"
    /\ \E how \in {"network", "status"} :
        Set(t, Caught(Returned([tasks[t] EXCEPT !.raised = TRUE])))
    /\ UNCHANGED <<sessionId, initCount, uuidCount, writes>>

\* The body does not parse: makeRequest throws the wrapped error.
OpJsonFail(t) ==
    /\ tasks[t].pc = "awaitOpJson"
    /\ Set(t, Caught(Returned([tasks[t] EXCEPT !.raised = TRUE])))
    /\ UNCHANGED <<sessionId, initCount, uuidCount, writes>>

\* The body is returned verbatim; the handler's case translates it and
\* calls reply.
OpJsonResult(t) ==
    /\ tasks[t].pc = "awaitOpJson"
    /\ \E result \in Results :
        Set(t, [Returned(tasks[t]) EXCEPT
                  !.pc = "awaitReply", !.result = result,
                  !.replies = Append(@, Translate(tasks[t].cmd, result))])
    /\ UNCHANGED <<sessionId, initCount, uuidCount, writes>>

----------------------------------------------------------------------------
(* interaction.reply settles *)

\* A reply resolves: the handler returns (or breaks out of the switch).
ReplyOk(t) ==
    /\ tasks[t].pc \in {"awaitDenyReply", "awaitReply", "awaitCatchReply"}
    /\ Set(t, [tasks[t] EXCEPT !.pc = "done", !.result = NoResult])
    /\ UNCHANGED <<sessionId, initCount, uuidCount, writes>>

\* A reply inside the try block rejects: the catch block replies.
ReplyFailInTry(t) ==
    /\ tasks[t].pc = "awaitReply"
    /\ Set(t, Caught(tasks[t]))
    /\ UNCHANGED <<sessionId, initCount, uuidCount, writes>>

\* A reply outside the try block (the denial at line 185, or the one in the
\* catch block) rejects: the rejection leaves the handler.
ReplyFailOutside(t) ==
    /\ tasks[t].pc \in {"awaitDenyReply", "awaitCatchReply"}
    /\ Set(t, [tasks[t] EXCEPT !.pc = "done", !.escaped = TRUE])
    /\ UNCHANGED <<sessionId, initCount, uuidCount, writes>>

\* The settled invocation is forgotten; its slot is free again.
Finish(t) ==
    /\ tasks[t].pc = "done"
    /\ Set(t, Idle)
    /\ UNCHANGED <<sessionId, initCount, uuidCount, writes>>

\* getSessionId and makeRequest up to the answer of the operation request.
Acquire(t) ==
    \/ InitFetchOk(t)
    \/ InitFetchFail(t)
    \/ InitJsonAccepted(t)
    \/ InitJsonRejected(t)
    \/ Fallback(t)
    \/ SendRequest(t)
    \/ OpFetchOk(t)

\* The handler's continuation after the client call.
Settle(t) ==
    \/ OpFetchFail(t)
    \/ OpJsonFail(t)
    \/ OpJsonResult(t)
    \/ ReplyOk(t)
    \/ ReplyFailInTry(t)
    \/ ReplyFailOutside(t)
    \/ Finish(t)

\* The bot, its invocations arriving one after another: the next one
\* arrives when no other is pending.
NonePending == \A u \in Tasks : tasks[u].pc = "idle"

SeqNext == \E t \in Tasks : (NonePending /\ Start(t)) \/ Acquire(t) \/ Settle(t)

SeqSpec == Init /\ [][SeqNext]_vars

----------------------------------------------------------------------------
(* The client under concurrent callers.  A caller here is any invocation   *)
(* that has reached a client method; what it does with the answer is not   *)
(* followed: when makeRequest returns or throws, the call is over.         *)

ClientCallCached(t) ==
    /\ Free(t)
    /\ HasSession(sessionId)
    /\ Set(t, CallCached(Idle))
    /\ UNCHANGED <<sessionId, initCount, uuidCount, writes>>

ClientCallInit(t) ==
    /\ Free(t)
    /\ ~HasSession(sessionId)
    /\ Set(t, CallInit(Idle))
    /\ initCount' = initCount + 1
    /\ UNCHANGED <<sessionId, uuidCount, writes>>

\* Line 101: the parsed body is returned.
ClientReturn(t) ==
    /\ tasks[t].pc = "awaitOpJson"
    /\ Set(t, Idle)
    /\ UNCHANGED <<sessionId, initCount, uuidCount, writes>>

\* Line 103: the wrapped error is thrown (fetch rejected, status not ok,
\* or body not parsed).
ClientThrow(t) ==
    /\ tasks[t].pc \in {"awaitOpFetch", "awaitOpJson"}
    /\ Set(t, Idle)
    /\ UNCHANGED <<sessionId, initCount, uuidCount, writes>>

ClientNext ==
    \E t \in Tasks :
        \/ ClientCallCached(t)
        \/ ClientCallInit(t)
        \/ Acquire(t)
        \/ ClientReturn(t)
        \/ ClientThrow(t)

ClientSpec == Init /\ [][ClientNext]_vars

----------------------------------------------------------------------------
(* Properties *)

Pending(t) == tasks[t].pc # "idle"
LastReply(t) == tasks[t].replies[Len(tasks[t].replies)]
RequestSent == {"awaitOpFetch", "awaitOpJson", "awaitReply", "awaitCatchReply", "done"}
StringCommands == Registered \ {"stats"}

\* C1: an invocation whose caller is not in the admin list makes exactly one
\* reply, the access-denied notification, sends no init request and no
\* operation request, and leaves the cached session id as it found it.
C1_DeniedNoUpstream ==
    \A t \in Tasks :
        (Pending(t) /\ tasks[t].caller \notin adminIds) =>
            /\ tasks[t].replies = <<AccessDenied>>
            /\ tasks[t].ninit = 0
            /\ tasks[t].nreq = 0
            /\ tasks[t].nwrite = 0
            /\ tasks[t].obs = "none"
            /\ sessionId = tasks[t].seen

\* A denied invocation has ended while a session id is cached.
C1_Witness ==
    \E t \in Tasks :
        /\ tasks[t].pc = "done"
        /\ tasks[t].caller \notin adminIds
        /\ tasks[t].replies = <<AccessDenied>>
        /\ sessionId # Null

\* C2: an admin invocation of a command with a string argument, one of whose
\* string arguments is empty or all whitespace, replies with a validation
\* error first and sends neither an init request nor an operation request.
C2_BlankRejected ==
    \A t \in Tasks :
        (Pending(t) /\ tasks[t].caller \in adminIds
            /\ tasks[t].cmd \in StringCommands /\ tasks[t].blank) =>
            /\ tasks[t].replies # <<>>
            /\ tasks[t].replies[1] = ValidationError
            /\ tasks[t].ninit = 0
            /\ tasks[t].nreq = 0

\* C3: an admin invocation never sends more than one operation request; with
\* a registered command and no blank string argument it has sent exactly one
\* by the time the client call is over, whatever the upstream answered; with
\* any other command name it sends none and replies "not implemented".
C3_OneOperationRequest ==
    \A t \in Tasks :
        (Pending(t) /\ tasks[t].caller \in adminIds) =>
            /\ tasks[t].nreq <= 1
            /\ (tasks[t].cmd \in Registered /\ ~tasks[t].blank
                    /\ tasks[t].pc \in RequestSent) => tasks[t].nreq = 1
            /\ tasks[t].cmd \notin Registered =>
                    /\ tasks[t].nreq = 0
                    /\ tasks[t].ninit = 0
                    /\ tasks[t].obs = "none"
                    /\ tasks[t].replies # <<>>
                    /\ tasks[t].replies[1] = UnknownCommand

\* An admin invocation of a registered command has ended after the client
\* raised, having sent its one request.
C3_Witness ==
    \E t \in Tasks :
        /\ tasks[t].pc = "done"
        /\ tasks[t].caller \in adminIds
        /\ tasks[t].cmd \in Registered
        /\ tasks[t].raised
        /\ tasks[t].nreq = 1

\* C4: every invocation that has ended made exactly one call of reply.
C4_ExactlyOneReply ==
    \A t \in Tasks : tasks[t].pc = "done" => Len(tasks[t].replies) = 1

\* C5: when the client operation raised, the invocation ends with the error
\* notification as its last reply and no exception has left the handler.
C5_RaiseIsContained ==
    \A t \in Tasks :
        (tasks[t].pc = "done" /\ tasks[t].raised) =>
            /\ tasks[t].replies # <<>>
            /\ LastReply(t) = CaughtError
            /\ ~tasks[t].escaped

\* C6: the reply built from an upstream result is positive when success is
\* true and negative when it is false, for every command; its text is the
\* upstream message when there is one, else the command's generic string.
C6_SuccessIsPositive ==
    \A t \in Tasks :
        (tasks[t].pc = "awaitReply" /\ tasks[t].result # NoResult) =>
            /\ tasks[t].result.success => LastReply(t).kind = "Positive"
            /\ ~tasks[t].result.success => LastReply(t).kind = "Negative"
            /\ tasks[t].result.message = "text" => LastReply(t).text = "message"
            /\ tasks[t].result.message = "absent" => LastReply(t).text = "generic"

\* C7: with invocations one after another, when the first init request was
\* answered with an accepted session id, that init request is the only one
\* ever sent, and every id resolved for, or carried by, an operation request
\* is that id.
C7_InitOnce ==
    (writes # <<>> /\ writes[1].src = "server") =>
        /\ initCount = 1
        /\ sessionId = writes[1]
        /\ \A t \in Tasks :
            /\ tasks[t].pc = "awaitSession" => tasks[t].sid = writes[1]
            /\ tasks[t].pc \in {"awaitOpFetch", "awaitOpJson"} =>
                    tasks[t].reqSid = writes[1]

\* A later operation's request is in flight with the server's id, taken from
\* the cache.
C7_Witness ==
    /\ writes # <<>>
    /\ writes[1].src = "server"
    /\ \E t \in Tasks :
        /\ tasks[t].obs = "cached"
        /\ tasks[t].pc = "awaitOpFetch"
        /\ tasks[t].reqSid = writes[1]

\* C8: with invocations one after another, when the first init request
\* failed, the client never raises before the operation request is sent; the
\* local id is cached like a server id would be, the originating request and
\* all later ones carry it, and no other init request is ever sent.
C8_FallbackCaches ==
    /\ \A t \in Tasks : tasks[t].raised => tasks[t].nreq = 1
    /\ \A t \in Tasks :
        tasks[t].fellBack =>
            /\ tasks[t].pc \in {"awaitSession", "awaitOpFetch", "awaitOpJson"}
            /\ tasks[t].pc = "awaitSession" => tasks[t].sid.src = "local"
            /\ tasks[t].pc # "awaitSession" => tasks[t].reqSid.src = "local"
    /\ (writes # <<>> /\ writes[1].src = "local") =>
        /\ initCount = 1
        /\ sessionId = writes[1]
        /\ \A t \in Tasks :
            /\ tasks[t].pc = "awaitSession" => tasks[t].sid = writes[1]
            /\ tasks[t].pc \in {"awaitOpFetch", "awaitOpJson"} =>
                    tasks[t].reqSid = writes[1]

\* After a fallback, a later operation's request is in flight with the local
\* id, taken from the cache.
C8_Witness ==
    /\ writes # <<>>
    /\ writes[1].src = "local"
    /\ \E t \in Tasks :
        /\ tasks[t].obs = "cached"
        /\ tasks[t].pc = "awaitOpFetch"
        /\ tasks[t].reqSid = writes[1]

\* C9: under any interleaving, a cached session id never becomes null again,
\* and a call that began while an id was cached sends no init request and
\* resolves and carries the id that was cached when it began.
C9_SessionMonotonic ==
    /\ [][sessionId # Null => sessionId' # Null]_vars
    /\ [](\A t \in Tasks :
            (Pending(t) /\ tasks[t].seen # Null) =>
                /\ tasks[t].ninit = 0
                /\ tasks[t].nwrite = 0
                /\ tasks[t].pc \in {"awaitSession", "awaitOpFetch", "awaitOpJson"}
                /\ tasks[t].pc = "awaitSession" => tasks[t].sid = tasks[t].seen
                /\ tasks[t].pc # "awaitSession" => tasks[t].reqSid = tasks[t].seen)

\* A call that began with a cached id has its request in flight with that id
\* after a concurrent acquisition overwrote the cache.
C9_Witness ==
    \E t \in Tasks :
        /\ tasks[t].seen # Null
        /\ tasks[t].pc = "awaitOpFetch"
        /\ tasks[t].reqSid = tasks[t].seen
        /\ sessionId # tasks[t].seen

Acquiring(t) == tasks[t].pc \in {"awaitInitFetch", "awaitInitJson", "awaitCrypto"}

\* C10: every call that begins while no session id is cached sends its own
\* init request and performs its own assignment of the cache; the cached id
\* is always the one assigned last, so once all acquisitions are over it is
\* the value of the acquisition that completed last.
C10_LastWriteWins ==
    /\ \A t \in Tasks :
        (Pending(t) /\ tasks[t].seen = Null) =>
            /\ tasks[t].ninit = 1
            /\ tasks[t].nwrite = (IF Acquiring(t) THEN 0 ELSE 1)
    /\ Len(writes) + Cardinality({t \in Tasks : Acquiring(t)}) = initCount
    /\ writes # <<>> => sessionId = writes[Len(writes)]

\* Two calls began with no session cached, both acquisitions completed with
\* different ids, and the cache holds the second.
C10_Witness ==
    /\ initCount = 2
    /\ Len(writes) = 2
    /\ writes[1] # writes[2]
    /\ sessionId = writes[2]
    /\ \A t \in Tasks : ~Pending(t)

Sends(t) == tasks[t].pc = "awaitSession" /\ tasks'[t].pc = "awaitOpFetch"
Resolves(t) == tasks[t].pc # "awaitSession" /\ tasks'[t].pc = "awaitSession"
Written == {writes[i] : i \in 1..Len(writes)}

\* C11 as stated: whenever an operation request is sent, the session id it
\* carries is the id cached in the client at that moment.
C11_CarriesCachedId ==
    [][\A t \in Tasks : Sends(t) => tasks'[t].reqSid = sessionId]_vars

\* C11 as amended: every operation request carries the id its own
\* getSessionId call returned; that id was the cached one at the moment
\* getSessionId returned it, and it is an id the cache has held, though not
\* necessarily the one it holds when the request is sent.
C11_CarriesResolvedId ==
    /\ [][\A t \in Tasks : Resolves(t) => tasks'[t].sid = sessionId']_vars
    /\ [][\A t \in Tasks : Sends(t) => tasks'[t].reqSid = tasks[t].sid]_vars
    /\ [](\A t \in Tasks :
            tasks[t].pc \in {"awaitOpFetch", "awaitOpJson"} =>
                /\ tasks[t].reqSid # Null
                /\ tasks[t].reqSid \in Written)

\* A call that began with no session cached has its request in flight with
\* the id of its own acquisition, which another acquisition has overwritten.
C11_Witness ==
    \E t \in Tasks :
        /\ tasks[t].seen = Null
        /\ tasks[t].pc = "awaitOpFetch"
        /\ tasks[t].reqSid \in Written
        /\ tasks[t].reqSid # sessionId

====
